---- MODULE Spec2Model ----
(***************************************************************************)
(* A model of the delay package (src/delay.go, src/conn.go): the function  *)
(* registry (Func), the invocation codec (Function.Task, handleTask), the  *)
(* task sender (Function.Call, QueueSpec.SendTasks) and the dispatch loop  *)
(* (Listener.Handle, Listener.listenQueue).                                *)
(*                                                                         *)
(* Go values are records [t, isnil, v]: t is the dynamic type ("" for the  *)
(* untyped nil interface), isnil says whether a reference value is nil,    *)
(* v tells values of one type apart.  Errors are records [kind, pos].      *)
(***************************************************************************)
EXTENDS Integers, Sequences, FiniteSets, TLC

\* ------------------------------------------------------------------ bounds
\* Functions created by Func in one run.
MaxFuncs == 2
\* Arguments passed to Task / Call in the registry specification.
MaxDynArgs == 1
\* Arguments passed to Task in the codec specification.
MaxArgs == 3
\* Tasks received on one stream / frames decoded in one subscription.
MaxTasks == 2
\* Connection attempts of one Handle loop that the model follows.
MaxAttempts == 2

\* ------------------------------------------------------- types and values
\* reflect.Kind of the types the model uses.
Kind(t) ==
  CASE t = "int" -> "Int"
    [] t = "S" -> "Struct"
    [] t = "*T" -> "Ptr"
    [] t = "chan" -> "Chan"
    [] t = "iface" -> "Interface"
    [] t = "ctx" -> "Interface"
    [] t = "error" -> "Interface"
    [] t = "[]int" -> "Slice"
    [] t = "[]*T" -> "Slice"
    [] OTHER -> "Invalid"

\* reflect.Type.Elem of the slice types.
Elem(t) ==
  CASE t = "[]int" -> "int"
    [] t = "[]*T" -> "*T"
    [] OTHER -> "invalid"

\* The kinds whose zero value is nil (the second switch of Function.Task).
NilableKinds == {"Chan", "Func", "Interface", "Map", "Ptr", "Slice"}

contextType == "ctx"

errorType == "error"

\* The untyped nil interface value: reflect.TypeOf gives nil for it.
NIL == [t |-> "", isnil |-> TRUE, v |-> 0]

\* reflect.Zero(t).
Zero(t) == [t |-> t, isnil |-> Kind(t) \in NilableKinds, v |-> 0]

\* The execution context handed to a handler as argument 0.
CtxValue == [t |-> "ctx", isnil |-> FALSE, v |-> 0]

\* The argument values a producer passes: nil, two integers, a non-nil
\* pointer and a nil pointer boxed in an interface.
Values ==
  { NIL,
    [t |-> "int", isnil |-> FALSE, v |-> 1],
    [t |-> "int", isnil |-> FALSE, v |-> 2],
    [t |-> "*T", isnil |-> FALSE, v |-> 1],
    [t |-> "*T", isnil |-> TRUE, v |-> 0] }

\* reflect.Type.AssignableTo: identical types, or an interface type the
\* argument's type implements (every type implements interface{}).
AssignableTo(at, dt) ==
  \/ at = dt
  \/ dt = "iface"

ArgLists(n) == UNION { [1..k -> Values] : k \in 0..n }

\* ----------------------------------------------------------------- errors
NoErr == [kind |-> "nil", pos |-> 0]

Err(kind, pos) == [kind |-> kind, pos |-> pos]

\* The two errors Func stores for a bad handler shape, and the one it
\* stores in a shadowed Function.
RegistrationErrors == {Err("notAFunction", 0), Err("firstArgNotContext", 0), Err("multipleFunctions", 0)}

\* -------------------------------------------------------------- handlers
\* What a caller can pass to Func as i: the untyped nil, a value that is
\* not a function, and functions given by their reflect.Type (In, IsVariadic,
\* Out).  in[1] is the Go parameter 0.
Sig(in, variadic, out) == [kind |-> "Func", in |-> in, variadic |-> variadic, out |-> out]

hNil == [kind |-> "Invalid", in |-> <<>>, variadic |-> FALSE, out |-> <<>>]

hNotFunc == [kind |-> "Int", in |-> <<>>, variadic |-> FALSE, out |-> <<>>]

hNoParams == Sig(<<>>, FALSE, <<>>)

hNoCtx == Sig(<<"int">>, FALSE, <<"error">>)

hInt == Sig(<<"ctx", "int">>, FALSE, <<"error">>)

hPtrIface == Sig(<<"ctx", "*T", "iface">>, FALSE, <<>>)

hChanStruct == Sig(<<"ctx", "chan", "S">>, FALSE, <<"error", "int">>)

hVarPtr == Sig(<<"ctx", "int", "[]*T">>, TRUE, <<"int", "error">>)

hVarInt == Sig(<<"ctx", "[]int">>, TRUE, <<"error", "int">>)

ValidHandlers == {hInt, hPtrIface, hChanStruct, hVarPtr, hVarInt}

Handlers == {hNil, hNotFunc, hNoParams, hNoCtx} \cup ValidHandlers

\* reflect.Type.NumIn and reflect.Type.In(i), i counted from 0 as in Go.
NumIn(ft) == Len(ft.in)

In(ft, i) == ft.in[i + 1]

NumOut(ft) == Len(ft.out)

Out(ft, i) == ft.out[i + 1]

\* runtime.Caller(1) file names and the short names given to Func.
Files == {"a.go"}

Names == {"k", "m"}


\* The derived key of Func: file + ":" + key.
DeriveKey(file, key) == file \o ":" \o key

\* Projects and queues a producer sends to (QueueSpec{conn, name}).
Queues == {[project |-> "p", name |-> "q1"], [project |-> "p", name |-> "q2"]}

\* ------------------------------------------------------------------ state
VARIABLES
  fns,        \* every Function Func has created, in creation order: [fv, key, err]
  funcs,      \* the registry: derived key -> index into fns
  gobTypes,   \* the concrete types registered with the gob package
  crashed,    \* "" or the function whose panic ended the process
  last,       \* the latest Task / Call and what it returned
  disp,       \* the latest handleTask and what it did
  input,      \* codec runs: the function index, arguments and queue under test
  hpc,        \* Handle: where its loop stands
  attempt,    \* Handle: the connection attempt it is in
  logged,     \* Handle: the latest listenQueue error was logged
  delay,      \* Handle: seconds of the latest sleep
  lqerr,      \* Handle: what the latest listenQueue returned
  variant,    \* the transport of the queue: "stream" or "pubsub"
  rpc,        \* listenQueue: where the receive goroutine stands
  gerr,       \* errgroup: the first error a goroutine returned
  cancelled,  \* errgroup: the shared context is cancelled
  units,      \* streaming: the goroutines spawned per received task
  acks,       \* streaming: the Ack requests handed to stream.Send, in order
  frames,     \* pubsub: the frames left in the message being decoded
  counter,    \* pubsub: the local variable i
  handled,    \* pubsub: the tasks given to handleTask, in order
  earlier     \* pubsub: the codes given to tasks in earlier attempts

registryVars == <<fns, funcs, gobTypes, crashed, last, disp, input>>

listenVars == <<hpc, attempt, logged, delay, lqerr, variant, earlier, rpc, gerr, cancelled, units, acks, frames, counter, handled>>

vars == <<fns, funcs, gobTypes, crashed, last, disp, input, hpc, attempt, logged, delay, lqerr, variant, earlier, rpc, gerr, cancelled, units, acks, frames, counter, handled>>

\* ------------------------------------------------------------- gob codec
\* The types the gob package registers by itself (registerBasics).
GobBasics == {"int", "[]int"}

Tok(s, n) == [s |-> s, n |-> n]

\* encodeInterface: a nil interface is sent as an empty type name; a nil
\* pointer inside an interface, a channel, a function or a type that was
\* never registered cannot be sent.
GobCanEncode(x, registered) ==
  \/ x = NIL
  \/ /\ ~x.isnil
     /\ Kind(x.t) \notin {"Chan", "Func"}
     /\ x.t \in registered

RECURSIVE GobArgs(_)
GobArgs(args) ==
  IF args = <<>> THEN <<>>
  ELSE <<Tok(Head(args).t, Head(args).v)>> \o GobArgs(Tail(args))

\* gob.NewEncoder(buf).Encode(inv): the key, the number of arguments, then
\* one token per argument.
GobEncode(inv, registered) ==
  IF \A i \in 1..Len(inv.Args) : GobCanEncode(inv.Args[i], registered)
  THEN [err |-> NoErr, bytes |-> <<Tok(inv.Key, 0), Tok("", Len(inv.Args))>> \o GobArgs(inv.Args)]
  ELSE [err |-> Err("gobEncode", 0), bytes |-> <<>>]

GobValue(tok) == IF tok.s = "" THEN NIL ELSE [t |-> tok.s, isnil |-> FALSE, v |-> tok.n]

\* gob.NewDecoder(r).Decode(&inv): fails on a truncated or malformed
\* payload and on a type name that is not registered in this process.
GobDecode(bytes, registered) ==
  IF /\ Len(bytes) >= 2
     /\ bytes[1].s # ""
     /\ bytes[2].s = ""
     /\ Len(bytes) = 2 + bytes[2].n
     /\ \A i \in 3..Len(bytes) : bytes[i].s = "" \/ bytes[i].s \in registered
  THEN [err |-> NoErr,
        inv |-> [Key |-> bytes[1].s, Args |-> [i \in 1..(Len(bytes) - 2) |-> GobValue(bytes[i + 2])]]]
  ELSE [err |-> Err("cannotDecode", 0), inv |-> [Key |-> "", Args |-> <<>>]]

\* ---------------------------------------------------------------- Func
\* The loop of Func that registers every parameter type that is not an
\* interface type with gob.
FuncGobTypes(ft) == {In(ft, i) : i \in {j \in 0..(NumIn(ft) - 1) : Kind(In(ft, j)) # "Interface"}}

\* funcs[key] of a Go map: 0 stands for the nil *Function.
Lookup(table, key) == IF key \in DOMAIN table THEN table[key] ELSE 0

\* The error a shape check of Func stores, NoErr when the shape is valid.
ShapeErr(i) ==
  IF i.kind # "Func" THEN Err("notAFunction", 0)
  ELSE IF NumIn(i) = 0 \/ In(i, 0) # contextType THEN Err("firstArgNotContext", 0)
  ELSE NoErr

\* FuncResult that overwrites the table entry without marking the Function
\* it replaces.
FuncResultNoMark(reg, file, key, i) ==
  LET k == DeriveKey(file, key)
      f == [fv |-> i, key |-> k, err |-> ShapeErr(i)]
  IN IF i.kind = "Invalid"
     THEN [reg EXCEPT !.crashed = "Func"]
     ELSE IF ShapeErr(i) # NoErr
     THEN [reg EXCEPT !.fns = Append(reg.fns, f)]
     ELSE [fns |-> Append(reg.fns, f),
           funcs |-> [x \in DOMAIN reg.funcs \cup {k} |-> IF x = k THEN Len(reg.fns) + 1 ELSE reg.funcs[x]],
           gobTypes |-> reg.gobTypes \cup FuncGobTypes(i),
           crashed |-> ""]

\* FuncResult that installs the Function in the table whatever its shape.
FuncResultStoresInvalid(reg, file, key, i) ==
  LET k == DeriveKey(file, key)
      f == [fv |-> i, key |-> k, err |-> ShapeErr(i)]
      old == Lookup(reg.funcs, k)
      marked == IF old # 0 THEN [reg.fns EXCEPT ![old].err = Err("multipleFunctions", 0)] ELSE reg.fns
  IN IF i.kind = "Invalid"
     THEN [reg EXCEPT !.crashed = "Func"]
     ELSE [fns |-> Append(marked, f),
           funcs |-> [x \in DOMAIN reg.funcs \cup {k} |-> IF x = k THEN Len(reg.fns) + 1 ELSE reg.funcs[x]],
           gobTypes |-> reg.gobTypes \cup (IF ShapeErr(i) = NoErr THEN FuncGobTypes(i) ELSE {}),
           crashed |-> ""]

\* The registry after Func(key, i) called from file, as a record of the
\* four registry variables.  reflect.ValueOf(nil).Type() panics.
FuncResult(reg, file, key, i) ==
  LET k == DeriveKey(file, key)
      f == [fv |-> i, key |-> k, err |-> ShapeErr(i)]
      old == Lookup(reg.funcs, k)
      marked == IF old # 0 THEN [reg.fns EXCEPT ![old].err = Err("multipleFunctions", 0)] ELSE reg.fns
  IN IF i.kind = "Invalid"
     THEN [reg EXCEPT !.crashed = "Func"]
     ELSE IF ShapeErr(i) # NoErr
     THEN [reg EXCEPT !.fns = Append(reg.fns, f)]
     ELSE [fns |-> Append(marked, f),
           funcs |-> [x \in DOMAIN reg.funcs \cup {k} |-> IF x = k THEN Len(reg.fns) + 1 ELSE reg.funcs[x]],
           gobTypes |-> reg.gobTypes \cup FuncGobTypes(i),
           crashed |-> ""]

EmptyRegistry == [fns |-> <<>>, funcs |-> [x \in {} |-> 0], gobTypes |-> GobBasics, crashed |-> ""]

Registry == [fns |-> fns, funcs |-> funcs, gobTypes |-> gobTypes, crashed |-> crashed]

NoTask == [isnil |-> TRUE, Payload |-> <<>>]

NoLast == [op |-> "none", f |-> 0, args |-> <<>>, queue |-> "", task |-> NoTask, err |-> NoErr, rpcs |-> <<>>]

NoInput == [f |-> 0, args |-> <<>>, queue |-> [project |-> "", name |-> ""]]

NoDisp == [ran |-> FALSE, payload |-> <<>>, err |-> NoErr, f |-> 0, calls |-> <<>>, out |-> <<>>, panicked |-> FALSE]

Func(file, key, i) ==
  /\ crashed = ""
  /\ Len(fns) < MaxFuncs
  /\ LET r == FuncResult(Registry, file, key, i)
     IN /\ fns' = r.fns
        /\ funcs' = r.funcs
        /\ gobTypes' = r.gobTypes
        /\ crashed' = r.crashed
  /\ disp' = NoDisp
  /\ UNCHANGED <<last, input>>
  /\ UNCHANGED listenVars


\* ---------------------------------------------------------- Function.Task
\* minArgs of Task: NumIn, one less for a variadic function.
MinArgs(ft) == IF ft.variadic THEN NumIn(ft) - 1 ELSE NumIn(ft)

\* ArityErr with the first comparison off by one.
ArityErrOffByOne(ft, nArgs) ==
  IF nArgs <= MinArgs(ft) THEN Err("tooFewArguments", 0)
  ELSE IF ~ft.variadic /\ nArgs > MinArgs(ft) THEN Err("tooManyArguments", 0)
  ELSE NoErr

\* The arity check of Task on nArgs = len(args) + 1.
ArityErr(ft, nArgs) ==
  IF nArgs < MinArgs(ft) THEN Err("tooFewArguments", 0)
  ELSE IF ~ft.variadic /\ nArgs > MinArgs(ft) THEN Err("tooManyArguments", 0)
  ELSE NoErr

\* The declared type Task checks argument i against (i counts the context
\* as 0): the parameter of the fixed prefix, else the variadic element.
DeclaredType(ft, i) ==
  IF i < MinArgs(ft) THEN In(ft, i) ELSE Elem(In(ft, MinArgs(ft)))

\* MayBeNil with the pointer kind left out of the switch.
MayBeNilNoPtr(dt) == Kind(dt) \in {"Chan", "Func", "Interface", "Map", "Slice"}

\* The kinds the first switch of the type loop lets a nil argument pass for.
MayBeNil(dt) == Kind(dt) \in {"Chan", "Func", "Interface", "Map", "Ptr", "Slice"}

\* The type loop of Task from argument i on: the error of the first
\* argument that fails, and args with every internally-nil reference so
\* far replaced by the nil interface.  args[i] is Go's args[i-1].
RECURSIVE CheckArgs(_, _, _)
CheckArgs(ft, args, i) ==
  IF i >= Len(args) + 1 THEN [err |-> NoErr, args |-> args]
  ELSE LET at == args[i].t
           dt == DeclaredType(ft, i)
           norm == IF Kind(at) \in NilableKinds /\ args[i].isnil
                   THEN [args EXCEPT ![i] = NIL] ELSE args
       IN IF at = ""
          THEN IF MayBeNil(dt)
               THEN CheckArgs(ft, args, i + 1)
               ELSE [err |-> Err("notNilable", i), args |-> args]
          ELSE IF ~AssignableTo(at, dt)
               THEN [err |-> Err("notAssignable", i), args |-> norm]
               ELSE CheckArgs(ft, norm, i + 1)

\* f.Task(args...): the *pb.SendTask and the error it returns.
TaskResult(f, args, registered) ==
  LET ft == f.fv
      checked == CheckArgs(ft, args, 1)
      enc == GobEncode([Key |-> f.key, Args |-> checked.args], registered)
  IN IF f.err # NoErr THEN [task |-> NoTask, err |-> f.err]
     ELSE IF ArityErr(ft, Len(args) + 1) # NoErr THEN [task |-> NoTask, err |-> ArityErr(ft, Len(args) + 1)]
     ELSE IF checked.err # NoErr THEN [task |-> NoTask, err |-> checked.err]
     ELSE IF enc.err # NoErr THEN [task |-> NoTask, err |-> enc.err]
     ELSE [task |-> [isnil |-> FALSE, Payload |-> enc.bytes], err |-> NoErr]

Task(f, args) ==
  /\ crashed = ""
  /\ f \in 1..Len(fns)
  /\ LET r == TaskResult(fns[f], args, gobTypes)
     IN last' = [NoLast EXCEPT !.op = "Task", !.f = f, !.args = args, !.task = r.task, !.err = r.err]
  /\ disp' = NoDisp
  /\ UNCHANGED <<fns, funcs, gobTypes, crashed, input>>
  /\ UNCHANGED listenVars

\* ------------------------------------------- Function.Call and SendTasks
\* queue.SendTasks(ctx, tasks): the request handed to the client, and the
\* error returned when the client reports rpcErr.
SendTasks(queue, tasks, rpcFails) ==
  [req |-> [Project |-> queue.project, QueueName |-> queue.name, Tasks |-> tasks],
   err |-> IF rpcFails THEN Err("cannotSendTasks", 0) ELSE NoErr]

\* Call that sends whatever Task returned before looking at its error.
CallResultSendsFirst(f, queue, args, registered, rpcFails) ==
  LET r == TaskResult(f, args, registered)
      s == SendTasks(queue, <<r.task>>, rpcFails)
  IN [task |-> r.task, err |-> IF r.err # NoErr THEN r.err ELSE s.err, rpcs |-> <<s.req>>]

\* f.Call(ctx, queue, args...): its error and the SendTasks requests it made.
CallResult(f, queue, args, registered, rpcFails) ==
  LET r == TaskResult(f, args, registered)
      s == SendTasks(queue, <<r.task>>, rpcFails)
  IN IF r.err # NoErr
     THEN [task |-> r.task, err |-> r.err, rpcs |-> <<>>]
     ELSE [task |-> r.task, err |-> s.err, rpcs |-> <<s.req>>]

Call(f, queue, args, rpcFails) ==
  /\ crashed = ""
  /\ f \in 1..Len(fns)
  /\ LET r == CallResult(fns[f], queue, args, gobTypes, rpcFails)
     IN last' = [op |-> "Call", f |-> f, args |-> args, queue |-> queue.name,
                 task |-> r.task, err |-> r.err, rpcs |-> r.rpcs]
  /\ disp' = NoDisp
  /\ UNCHANGED <<fns, funcs, gobTypes, crashed, input>>
  /\ UNCHANGED listenVars


\* ------------------------------------------------------------ handleTask
\* ZeroType that takes the variadic parameter itself for the first
\* argument of the variadic tail.
ZeroTypeOffByOne(ft, n) ==
  IF ~ft.variadic \/ n < NumIn(ft) THEN In(ft, n) ELSE Elem(In(ft, NumIn(ft) - 1))

\* The type handleTask takes the zero value of for a nil argument n (the
\* context is argument 0): the parameter n, or the variadic element.
ZeroType(ft, n) ==
  IF ~ft.variadic \/ n < NumIn(ft) - 1 THEN In(ft, n) ELSE Elem(In(ft, NumIn(ft) - 1))

\* The loop of handleTask that builds the argument vector: a decoded
\* value as it is, the zero value of the declared type for a nil.
\* ft.In(n) panics when n is not a parameter index.
RECURSIVE BuildIn(_, _, _)
BuildIn(ft, args, in) ==
  IF args = <<>> THEN [panicked |-> FALSE, in |-> in]
  ELSE LET arg == Head(args)
           n == Len(in)
       IN IF arg # NIL THEN BuildIn(ft, Tail(args), Append(in, arg))
          ELSE IF (~ft.variadic \/ n < NumIn(ft) - 1) /\ n >= NumIn(ft)
          THEN [panicked |-> TRUE, in |-> in]
          ELSE BuildIn(ft, Tail(args), Append(in, Zero(ZeroType(ft, n))))

\* reflect.Value.Call panics on a wrong number of arguments and on an
\* argument that is not assignable to its parameter.
CallPanics(ft, in) ==
  IF ft.variadic
  THEN \/ Len(in) < NumIn(ft) - 1
       \/ \E i \in 1..Len(in) :
            ~AssignableTo(in[i].t, IF i <= NumIn(ft) - 1 THEN ft.in[i] ELSE Elem(ft.in[NumIn(ft)]))
  ELSE \/ Len(in) # NumIn(ft)
       \/ \E i \in 1..Len(in) : ~AssignableTo(in[i].t, ft.in[i])

ErrValue == [t |-> "*errors.errorString", isnil |-> FALSE, v |-> 1]

\* What a handler of type ft can return: nil or an error where it
\* declares an error, the zero value elsewhere.
HandlerReturns(ft) ==
  {r \in [1..NumOut(ft) -> {NIL, ErrValue, Zero("int")}] :
     \A i \in 1..NumOut(ft) :
        IF ft.out[i] = errorType THEN r[i] \in {NIL, ErrValue} ELSE r[i] = Zero(ft.out[i])}

\* A result rule that takes an error returned in any position.
HandlerErrAnyPosition(ft, out) ==
  IF \E i \in 1..NumOut(ft) : ft.out[i] = errorType /\ out[i] # NIL
  THEN Err("handlerFailed", 0)
  ELSE NoErr

\* The last lines of handleTask: the handler failed when its last
\* declared result is the error type and the value returned there is not nil.
HandlerErr(ft, out) ==
  IF NumOut(ft) > 0 /\ Out(ft, NumOut(ft) - 1) = errorType /\ out[NumOut(ft)] # NIL
  THEN Err("handlerFailed", 0)
  ELSE NoErr

\* A handleTask that checks the argument vector against the handler it
\* found and returns an error where the call would panic.
PrepareRevalidates(payload, reg) ==
  LET d == GobDecode(payload, reg.gobTypes)
      fi == Lookup(reg.funcs, d.inv.Key)
      ft == reg.fns[fi].fv
      b == BuildIn(ft, d.inv.Args, <<CtxValue>>)
  IN IF d.err # NoErr THEN [err |-> d.err, f |-> 0, in |-> <<>>, panicked |-> FALSE]
     ELSE IF fi = 0 THEN [err |-> Err("noFuncWithKey", 0), f |-> 0, in |-> <<>>, panicked |-> FALSE]
     ELSE IF b.panicked \/ CallPanics(ft, b.in)
     THEN [err |-> Err("typeMismatch", 0), f |-> 0, in |-> <<>>, panicked |-> FALSE]
     ELSE [err |-> NoErr, f |-> fi, in |-> b.in, panicked |-> FALSE]

\* handleTask up to the call of the handler: the decode or lookup error,
\* the Function found, the argument vector, and whether building it or
\* calling with it panics.
Prepare(payload, reg) ==
  LET d == GobDecode(payload, reg.gobTypes)
      fi == Lookup(reg.funcs, d.inv.Key)
      ft == reg.fns[fi].fv
      b == BuildIn(ft, d.inv.Args, <<CtxValue>>)
  IN IF d.err # NoErr THEN [err |-> d.err, f |-> 0, in |-> <<>>, panicked |-> FALSE]
     ELSE IF fi = 0 THEN [err |-> Err("noFuncWithKey", 0), f |-> 0, in |-> <<>>, panicked |-> FALSE]
     ELSE [err |-> NoErr, f |-> fi, in |-> b.in, panicked |-> b.panicked \/ CallPanics(ft, b.in)]

\* handleTask(ctx, task) with the handler returning ret.
HandleTaskResult(payload, reg, ret) ==
  LET p == Prepare(payload, reg)
      none == [NoDisp EXCEPT !.ran = TRUE, !.payload = payload]
  IN IF p.err # NoErr THEN [none EXCEPT !.err = p.err]
     ELSE IF p.panicked THEN [none EXCEPT !.f = p.f, !.panicked = TRUE]
     ELSE [none EXCEPT !.f = p.f, !.calls = <<[f |-> p.f, in |-> p.in]>>, !.out = ret,
                       !.err = HandlerErr(reg.fns[p.f].fv, ret)]

\* The returns handleTask may see for a payload: those of the handler it
\* resolves, none when the handler is never called.
ReturnsFor(payload, reg) ==
  LET p == Prepare(payload, reg)
  IN IF p.f = 0 \/ p.panicked THEN {<<>>} ELSE HandlerReturns(reg.fns[p.f].fv)

\* Payloads that no Task of this process built: bytes that do not decode,
\* and an invocation of a key nobody registered.
PGarbage == <<Tok("", 0)>>

PUnknownKey == <<Tok("z.go:x", 0), Tok("", 0)>>

ForeignPayloads == {PGarbage, PUnknownKey}

handleTask(payload, ret) ==
  /\ crashed = ""
  /\ disp' = HandleTaskResult(payload, Registry, ret)
  /\ crashed' = IF disp'.panicked THEN "handleTask" ELSE ""
  /\ UNCHANGED <<fns, funcs, gobTypes, last, input>>
  /\ UNCHANGED listenVars

\* The payloads a consumer can be handed: the one the latest Task or Call
\* built, and the foreign ones.
InFlight == (IF last.task.isnil THEN {} ELSE {last.task.Payload}) \cup ForeignPayloads

\* ------------------------------------------------- the dispatch loop, idle
ListenIdle ==
  /\ hpc = "idle"
  /\ attempt = 0
  /\ logged = FALSE
  /\ delay = 0
  /\ lqerr = NoErr
  /\ variant = "none"
  /\ rpc = "idle"
  /\ gerr = NoErr
  /\ cancelled = FALSE
  /\ units = <<>>
  /\ acks = <<>>
  /\ frames = <<>>
  /\ counter = 0
  /\ handled = <<>>
  /\ earlier = {}

\* ------------------------------------------ registry and codec, any order
Init ==
  /\ fns = EmptyRegistry.fns
  /\ funcs = EmptyRegistry.funcs
  /\ gobTypes = EmptyRegistry.gobTypes
  /\ crashed = EmptyRegistry.crashed
  /\ last = NoLast
  /\ disp = NoDisp
  /\ input = NoInput
  /\ ListenIdle

Next ==
  \/ \E file \in Files, key \in Names, i \in Handlers : Func(file, key, i)
  \/ \E f \in 1..MaxFuncs, args \in ArgLists(MaxDynArgs) : Task(f, args)
  \/ \E f \in 1..MaxFuncs, queue \in Queues, args \in ArgLists(MaxDynArgs), rpcFails \in BOOLEAN :
       Call(f, queue, args, rpcFails)
  \/ \E payload \in InFlight : \E ret \in ReturnsFor(payload, Registry) : handleTask(payload, ret)

Spec == Init /\ [][Next]_vars


\* ------------------------------- the codec on a registry built at start-up
\* Start-up registrations, each a sequence of Func calls from a.go: one
\* handler of any shape under "k", or a valid handler under "k" after
\* func(ctx, *T, interface{}) was registered under "k" (and is shadowed) or
\* under "m" (and stays).
StartUps ==
  {<<[name |-> "k", i |-> h]>> : h \in Handlers \ {hNil}}
  \cup {<<[name |-> n, i |-> hPtrIface], [name |-> "k", i |-> h]>> : n \in Names, h \in ValidHandlers}

RECURSIVE StartUp(_)
StartUp(calls) ==
  IF calls = <<>> THEN EmptyRegistry
  ELSE FuncResult(StartUp(SubSeq(calls, 1, Len(calls) - 1)), "a.go",
                  calls[Len(calls)].name, calls[Len(calls)].i)

CodecInit ==
  /\ \E calls \in StartUps :
       /\ fns = StartUp(calls).fns
       /\ funcs = StartUp(calls).funcs
       /\ gobTypes = StartUp(calls).gobTypes
       /\ crashed = StartUp(calls).crashed
  /\ input \in [f : 1..Len(fns), args : ArgLists(MaxArgs), queue : Queues]
  /\ last = NoLast
  /\ disp = NoDisp
  /\ ListenIdle

CodecNext ==
  \/ Task(input.f, input.args)
  \/ \E rpcFails \in BOOLEAN : Call(input.f, input.queue, input.args, rpcFails)
  \/ \E payload \in InFlight : \E ret \in ReturnsFor(payload, Registry) : handleTask(payload, ret)

CodecSpec == CodecInit /\ [][CodecNext]_vars


\* ------------------------------- a payload in flight across registrations
\* One valid handler is registered under "k" at start-up; a payload is
\* built on it, and further registrations may happen before the payload
\* is dispatched.
ShadowInit ==
  /\ \E h \in ValidHandlers :
       /\ fns = StartUp(<<[name |-> "k", i |-> h]>>).fns
       /\ funcs = StartUp(<<[name |-> "k", i |-> h]>>).funcs
       /\ gobTypes = StartUp(<<[name |-> "k", i |-> h]>>).gobTypes
       /\ crashed = StartUp(<<[name |-> "k", i |-> h]>>).crashed
  /\ input \in [f : {1}, args : ArgLists(MaxArgs), queue : {CHOOSE q \in Queues : TRUE}]
  /\ last = NoLast
  /\ disp = NoDisp
  /\ ListenIdle

ShadowNext ==
  \/ Task(input.f, input.args)
  \/ \E key \in Names, i \in Handlers : Func("a.go", key, i)
  \/ \E payload \in InFlight : \E ret \in ReturnsFor(payload, Registry) : handleTask(payload, ret)

ShadowSpec == ShadowInit /\ [][ShadowNext]_vars


\* ======================================================= the dispatch loop
\* The registry a consumer runs with, built at start-up: func(ctx, int)
\* error under "k" and func(ctx, *T, interface{}) under "m".
ListenRegistry == StartUp(<<[name |-> "k", i |-> hInt], [name |-> "m", i |-> hPtrIface]>>)

\* Payloads built by the producer side of the same registry.
PInt == TaskResult(ListenRegistry.fns[1], <<[t |-> "int", isnil |-> FALSE, v |-> 1]>>, ListenRegistry.gobTypes).task.Payload

PPtr == TaskResult(ListenRegistry.fns[2], <<NIL, [t |-> "int", isnil |-> FALSE, v |-> 2]>>, ListenRegistry.gobTypes).task.Payload

\* The payloads a queue delivers.
ListenPayloads == {PGarbage, PUnknownKey, PInt, PPtr}

\* The codes the queue server gives its tasks.
Codes == {"t1", "t2"}

\* time.Sleep(15 * time.Second) of Handle.
RetrySeconds == 15

\* Sleep that grows with the number of attempts.
SleepSecondsGrowing(n) == RetrySeconds * n

\* The seconds Handle sleeps after attempt n.
SleepSeconds(n) == RetrySeconds

\* A group that keeps the first error and leaves the context alone.
GroupReturnNoCancel(err) ==
  /\ gerr' = IF gerr = NoErr THEN err ELSE gerr
  /\ cancelled' = cancelled

\* errgroup: a goroutine of the group returned err.  The first error that
\* is not nil is kept and cancels the shared context.
GroupReturn(err) ==
  /\ gerr' = IF gerr = NoErr THEN err ELSE gerr
  /\ cancelled' = (cancelled \/ err # NoErr)

\* Handle after listenQueue returned err: log it when it is not nil, then
\* sleep.
HandleReturned(err) ==
  /\ hpc' = "sleep"
  /\ lqerr' = err
  /\ logged' = (err # NoErr)
  /\ delay' = SleepSeconds(attempt)

\* A counter that outlives the subscription goroutine.
CounterKept == counter

\* var i int64: the counter of a new subscription goroutine.
FreshCounter == 0

\* listenQueue up to group.Wait: a new group and context; the pubsub
\* variant starts the subscription goroutine; the streaming variant opens
\* the stream and sends the initial request, returning at once when either
\* fails, then starts the receive goroutine.
listenQueue(outcome) ==
  /\ crashed = ""
  /\ hpc = "call"
  /\ variant = "pubsub" => outcome = "ok"
  /\ gerr' = NoErr
  /\ cancelled' = FALSE
  /\ units' = <<>>
  /\ acks' = <<>>
  /\ frames' = <<>>
  /\ counter' = FreshCounter
  /\ handled' = <<>>
  /\ earlier' = earlier \cup {handled[i].Code : i \in 1..Len(handled)}
  /\ IF outcome = "ok"
     THEN /\ rpc' = "run"
          /\ hpc' = "wait"
          /\ UNCHANGED <<lqerr, logged, delay>>
     ELSE /\ rpc' = "idle"
          /\ HandleReturned(Err(outcome, 0))
  /\ UNCHANGED <<attempt, variant>>
  /\ UNCHANGED registryVars

\* A Wait that returns as soon as the receive goroutine has.
ReceiveLoopReturned == rpc = "ret"

\* Every goroutine started with group.Go has returned: the receive or
\* subscription goroutine and every unit.
GroupDone == rpc = "ret" /\ \A u \in 1..Len(units) : units[u].pc = "done"

\* group.Wait returns once the receive goroutine and every spawned unit
\* have returned; listenQueue wraps the group's error.
Wait ==
  /\ crashed = ""
  /\ hpc = "wait"
  /\ GroupDone
  /\ HandleReturned(IF gerr # NoErr THEN Err("errorClosingGoroutines", 0) ELSE NoErr)
  /\ UNCHANGED <<attempt, variant, earlier, rpc, gerr, cancelled, units, acks, frames, counter, handled>>
  /\ UNCHANGED registryVars

\* Handle: the sleep is over, the loop starts the next attempt.
Handle ==
  /\ crashed = ""
  /\ hpc = "sleep"
  /\ hpc' = "call"
  /\ attempt' = IF attempt < MaxAttempts THEN attempt + 1 ELSE attempt
  /\ UNCHANGED <<logged, delay, lqerr, variant, earlier, rpc, gerr, cancelled, units, acks, frames, counter, handled>>
  /\ UNCHANGED registryVars

\* ---------------------------------------------------- streaming variant
\* stream.Recv returned a task: the receive goroutine spawns a unit for it.
Recv(code, payload) ==
  /\ crashed = ""
  /\ variant = "stream"
  /\ rpc = "run"
  /\ Len(units) < MaxTasks
  /\ units' = Append(units, [Code |-> code, Payload |-> payload, pc |-> "spawned", err |-> NoErr, failed |-> FALSE])
  /\ UNCHANGED <<hpc, attempt, logged, delay, lqerr, variant, earlier, rpc, gerr, cancelled, acks, frames, counter, handled>>
  /\ UNCHANGED registryVars

\* stream.Recv failed: the receive goroutine returns the error.
RecvFails ==
  /\ crashed = ""
  /\ variant = "stream"
  /\ rpc = "run"
  /\ rpc' = "ret"
  /\ GroupReturn(Err("cannotReceive", 0))
  /\ UNCHANGED <<hpc, attempt, logged, delay, lqerr, variant, earlier, units, acks, frames, counter, handled>>
  /\ UNCHANGED registryVars

\* A unit that counts only a failure of the handler itself.
TaskFailedHandlerOnly(err) == err.kind = "handlerFailed"

\* A task failed when handleTask returned an error, whatever the error.
TaskFailed(err) == err # NoErr

\* A unit starts: handleTask decodes the payload, looks the function up
\* and calls the handler.
UnitStart(u) ==
  /\ crashed = ""
  /\ units[u].pc = "spawned"
  /\ LET p == Prepare(units[u].Payload, Registry)
     IN /\ units' = [units EXCEPT ![u].pc = IF p.err # NoErr THEN "ack" ELSE "handler",
                                  ![u].err = p.err,
                                  ![u].failed = TaskFailed(p.err)]
        /\ crashed' = IF p.panicked THEN "handleTask" ELSE ""
  /\ UNCHANGED <<fns, funcs, gobTypes, last, disp, input>>
  /\ UNCHANGED <<hpc, attempt, logged, delay, lqerr, variant, earlier, rpc, gerr, cancelled, acks, frames, counter, handled>>

\* The handler of a unit returns ret: handleTask returns, failed is set.
HandlerReturn(u, ret) ==
  /\ crashed = ""
  /\ units[u].pc = "handler"
  /\ LET ft == fns[Prepare(units[u].Payload, Registry).f].fv
     IN /\ ret \in HandlerReturns(ft)
        /\ units' = [units EXCEPT ![u].pc = "ack",
                                  ![u].err = HandlerErr(ft, ret),
                                  ![u].failed = TaskFailed(HandlerErr(ft, ret))]
  /\ UNCHANGED <<hpc, attempt, logged, delay, lqerr, variant, earlier, rpc, gerr, cancelled, acks, frames, counter, handled>>
  /\ UNCHANGED registryVars

\* The handler of a unit ignores its context and never returns.
HandlerBlocks(u) ==
  /\ crashed = ""
  /\ units[u].pc = "handler"
  /\ units' = [units EXCEPT ![u].pc = "blocked"]
  /\ UNCHANGED <<hpc, attempt, logged, delay, lqerr, variant, earlier, rpc, gerr, cancelled, acks, frames, counter, handled>>
  /\ UNCHANGED registryVars

\* An Ack that reports success whatever handleTask returned.
AckOfAlwaysSuccess(unit) == [Code |-> unit.Code, Success |-> TRUE]

\* The Ack request a unit builds.
AckOf(unit) == [Code |-> unit.Code, Success |-> ~unit.failed]

\* A unit enters stream.Send with its Ack.
SendAck(u) ==
  /\ crashed = ""
  /\ units[u].pc = "ack"
  /\ acks' = Append(acks, [unit |-> u, req |-> AckOf(units[u])])
  /\ units' = [units EXCEPT ![u].pc = "sending"]
  /\ UNCHANGED <<hpc, attempt, logged, delay, lqerr, variant, earlier, rpc, gerr, cancelled, frames, counter, handled>>
  /\ UNCHANGED registryVars

\* A unit that also returns the failure of its handler to the group.
UnitReturnHandlerErr(unit, ok) ==
  IF unit.failed THEN unit.err ELSE IF ok THEN NoErr ELSE Err("cannotAck", 0)

\* What a unit returns to the group: the failure of its Send, else nil.
UnitReturn(unit, ok) == IF ok THEN NoErr ELSE Err("cannotAck", 0)

\* stream.Send returns to the unit, which returns its error, if any, to
\* the group.
SendReturns(u, ok) ==
  /\ crashed = ""
  /\ units[u].pc = "sending"
  /\ units' = [units EXCEPT ![u].pc = "done"]
  /\ GroupReturn(UnitReturn(units[u], ok))
  /\ UNCHANGED <<hpc, attempt, logged, delay, lqerr, variant, earlier, rpc, acks, frames, counter, handled>>
  /\ UNCHANGED registryVars

\* ------------------------------------------------------- pubsub variant
\* A frame of a channel message: a serialized SendTask, or bytes that
\* proto's DecodeMessage rejects.
BadFrame == [bad |-> TRUE, Payload |-> <<>>]

Frames == {[bad |-> FALSE, Payload |-> p] : p \in ListenPayloads} \cup {BadFrame}

\* The messages a channel delivers: up to two frames each.
Messages == UNION { [1..k -> Frames] : k \in 0..2 }

\* A code formatted from the counter before it is incremented.
SimCodeBeforeIncrement(i) == "sim-" \o ToString(i - 1)

\* fmt.Sprintf("sim-%d", i)
SimCode(i) == "sim-" \o ToString(i)

\* The subscription goroutine takes the next message from the channel.
PubsubMessage(msg) ==
  /\ crashed = ""
  /\ variant = "pubsub"
  /\ rpc = "run"
  /\ counter + Len(msg) <= MaxTasks
  /\ frames' = msg
  /\ rpc' = "decode"
  /\ UNCHANGED <<hpc, attempt, logged, delay, lqerr, variant, earlier, gerr, cancelled, units, acks, counter, handled>>
  /\ UNCHANGED registryVars

\* The channel is closed: the range loop ends and the goroutine returns nil.
PubsubClosed ==
  /\ crashed = ""
  /\ variant = "pubsub"
  /\ rpc = "run"
  /\ rpc' = "ret"
  /\ GroupReturn(NoErr)
  /\ UNCHANGED <<hpc, attempt, logged, delay, lqerr, variant, earlier, units, acks, frames, counter, handled>>
  /\ UNCHANGED registryVars

\* DecodeMessage at the end of the buffer: on io.EOF the inner loop
\* breaks and the next message is awaited, on any other error the
\* goroutine returns it.
PubsubEndOfMessage(eof) ==
  /\ crashed = ""
  /\ variant = "pubsub"
  /\ rpc = "decode"
  /\ frames = <<>>
  /\ IF eof
     THEN rpc' = "run" /\ UNCHANGED <<gerr, cancelled>>
     ELSE rpc' = "ret" /\ GroupReturn(Err("cannotDecodeIncoming", 0))
  /\ UNCHANGED <<hpc, attempt, logged, delay, lqerr, variant, earlier, units, acks, frames, counter, handled>>
  /\ UNCHANGED registryVars

\* DecodeMessage fails on the next frame: the goroutine returns the error.
PubsubBadFrame ==
  /\ crashed = ""
  /\ variant = "pubsub"
  /\ rpc = "decode"
  /\ frames # <<>>
  /\ Head(frames).bad
  /\ rpc' = "ret"
  /\ GroupReturn(Err("cannotDecodeIncoming", 0))
  /\ UNCHANGED <<hpc, attempt, logged, delay, lqerr, variant, earlier, units, acks, frames, counter, handled>>
  /\ UNCHANGED registryVars

\* A subscription goroutine that starts the handler and goes on decoding.
AfterDispatchAsync(err) == "decode"

\* Where the subscription goroutine is once handleTask has started: inside
\* the handler it called, or back in the decoding loop when handleTask
\* returned an error before calling one.
AfterDispatch(err) == IF err # NoErr THEN "decode" ELSE "handler"

\* The next frame decodes: i++, the task gets its code, handleTask runs
\* inline up to the call of the handler.  rest is the number of frames
\* of the message that follow the task.
PubsubTask ==
  /\ crashed = ""
  /\ variant = "pubsub"
  /\ rpc = "decode"
  /\ frames # <<>>
  /\ ~Head(frames).bad
  /\ counter' = counter + 1
  /\ frames' = Tail(frames)
  /\ LET p == Prepare(Head(frames).Payload, Registry)
     IN /\ handled' = Append(handled, [Code |-> SimCode(counter'), Payload |-> Head(frames).Payload,
                                       pc |-> IF p.err # NoErr THEN "done" ELSE "handler",
                                       rest |-> Len(frames'),
                                       failed |-> TaskFailed(p.err)])
        /\ rpc' = AfterDispatch(p.err)
        /\ crashed' = IF p.panicked THEN "handleTask" ELSE ""
  /\ UNCHANGED <<fns, funcs, gobTypes, last, disp, input>>
  /\ UNCHANGED <<hpc, attempt, logged, delay, lqerr, variant, earlier, gerr, cancelled, units, acks>>

\* The inline handler returns ret: a failure is logged, the loop goes on.
PubsubHandlerReturn(ret) ==
  /\ crashed = ""
  /\ variant = "pubsub"
  /\ rpc = "handler"
  /\ LET ft == fns[Prepare(handled[Len(handled)].Payload, Registry).f].fv
     IN /\ ret \in HandlerReturns(ft)
        /\ handled' = [handled EXCEPT ![Len(handled)].pc = "done",
                                      ![Len(handled)].failed = TaskFailed(HandlerErr(ft, ret))]
  /\ rpc' = "decode"
  /\ UNCHANGED <<hpc, attempt, logged, delay, lqerr, variant, earlier, gerr, cancelled, units, acks, frames, counter>>
  /\ UNCHANGED registryVars

\* The inline handler ignores its context and never returns.
PubsubHandlerBlocks ==
  /\ crashed = ""
  /\ variant = "pubsub"
  /\ rpc = "handler"
  /\ rpc' = "blocked"
  /\ UNCHANGED <<hpc, attempt, logged, delay, lqerr, variant, earlier, gerr, cancelled, units, acks, frames, counter, handled>>
  /\ UNCHANGED registryVars

\* ------------------------------------------------ the listener, running
ListenInit ==
  /\ fns = ListenRegistry.fns
  /\ funcs = ListenRegistry.funcs
  /\ gobTypes = ListenRegistry.gobTypes
  /\ crashed = ListenRegistry.crashed
  /\ last = NoLast
  /\ disp = NoDisp
  /\ input = NoInput
  /\ hpc = "call"
  /\ attempt = 1
  /\ logged = FALSE
  /\ delay = 0
  /\ lqerr = NoErr
  /\ variant \in {"stream", "pubsub"}
  /\ rpc = "idle"
  /\ gerr = NoErr
  /\ cancelled = FALSE
  /\ units = <<>>
  /\ acks = <<>>
  /\ frames = <<>>
  /\ counter = 0
  /\ handled = <<>>
  /\ earlier = {}

\* What a unit does by itself once spawned, until its handler blocks.
UnitStep(u) ==
  \/ UnitStart(u)
  \/ \E ret \in HandlerReturns(hInt) \cup HandlerReturns(hPtrIface) : HandlerReturn(u, ret)
  \/ SendAck(u)
  \/ \E ok \in BOOLEAN : SendReturns(u, ok)

\* What the subscription goroutine does by itself inside a message.
PubsubStep ==
  \/ \E eof \in BOOLEAN : PubsubEndOfMessage(eof)
  \/ PubsubBadFrame
  \/ PubsubTask
  \/ \E ret \in HandlerReturns(hInt) \cup HandlerReturns(hPtrIface) : PubsubHandlerReturn(ret)

ListenNext ==
  \/ \E outcome \in {"ok", "cannotListen", "cannotSendInitial"} : listenQueue(outcome)
  \/ Wait
  \/ Handle
  \/ \E code \in Codes, payload \in ListenPayloads : Recv(code, payload)
  \/ RecvFails
  \/ \E u \in 1..Len(units) : UnitStep(u)
  \/ \E u \in 1..Len(units) : HandlerBlocks(u)
  \/ \E msg \in Messages : PubsubMessage(msg)
  \/ PubsubClosed
  \/ PubsubStep
  \/ PubsubHandlerBlocks

ListenSpec == ListenInit /\ [][ListenNext]_vars

\* The steps the Go runtime and the transport make happen: Handle's loop
\* goes on, group.Wait returns once every goroutine has, a call of
\* stream.Send returns, a handler that has not blocked returns, and
\* stream.Recv fails once the context the stream was opened with is
\* cancelled.
Progress ==
  \/ \E outcome \in {"ok", "cannotListen", "cannotSendInitial"} : listenQueue(outcome)
  \/ Wait
  \/ Handle
  \/ cancelled /\ RecvFails
  \/ \E u \in 1..Len(units) : UnitStep(u)
  \/ PubsubStep

\* The program never stops while one of these steps can be taken.  This
\* asks less of the scheduler than fairness to each goroutine would.
FairListenSpec == ListenSpec /\ WF_vars(Progress)

\* =================================================================== claims
\* What the claims say of a handler type, in their own words: P declared
\* parameters with the context, and the declared type of argument position
\* i (the context is position 0).
ClaimP(ft) == Len(ft.in)

ClaimDeclared(ft, i) ==
  IF ft.variadic /\ i >= ClaimP(ft) - 1 THEN Elem(ft.in[ClaimP(ft)]) ELSE ft.in[i + 1]

ClaimNilableKind(k) == k \in {"Ptr", "Slice", "Map", "Interface", "Chan", "Func"}

ArityErrors == {"tooFewArguments", "tooManyArguments"}

TypeErrors == {"notNilable", "notAssignable"}

\* The latest Task or Call ran on a Function without registration error.
LastOnUsable == last.op \in {"Task", "Call"} /\ fns[last.f].err = NoErr

\* C7: producer-side validation gates the transport.  When Task fails on
\* the arguments (registration error, arity, type, non-nilable nil,
\* serialization), Call returns Task's error and hands nothing to
\* SendTasks, and a failed Task carries no payload; when Task succeeds,
\* Call hands SendTasks exactly one request, for the named queue, holding
\* exactly the one task Task built.
C7_ValidationGatesTransport ==
  /\ last.op = "Task" /\ last.err # NoErr => last.task = NoTask /\ last.rpcs = <<>>
  /\ last.op = "Call" =>
       LET t == TaskResult(fns[last.f], last.args, gobTypes)
       IN /\ t.err # NoErr => last.err = t.err /\ last.rpcs = <<>> /\ last.task = NoTask
          /\ t.err = NoErr =>
               /\ ~t.task.isnil
               /\ last.rpcs = <<[Project |-> input.queue.project,
                                QueueName |-> input.queue.name,
                                Tasks |-> <<t.task>>]>>

\* C7 witness: a Call whose arguments pass the checks but do not serialize
\* returned the encoder's error without a request.
C7_Witness ==
  /\ last.op = "Call"
  /\ last.err.kind = "gobEncode"
  /\ last.rpcs = <<>>

\* C8: the arity rule of Task.  With P declared parameters, a non-variadic
\* handler gets "too few" below P-1 arguments, "too many" above, and passes
\* the arity check at exactly P-1; a variadic handler gets "too few" below
\* P-2 arguments and passes the arity check at every count from P-2 up.
C8_ArityRule ==
  LastOnUsable =>
    LET ft == fns[last.f].fv
        n == Len(last.args)
        P == ClaimP(ft)
    IN IF ft.variadic
       THEN /\ n < P - 2 => last.err.kind = "tooFewArguments"
            /\ n >= P - 2 => last.err.kind \notin ArityErrors
       ELSE /\ n < P - 1 => last.err.kind = "tooFewArguments"
            /\ n > P - 1 => last.err.kind = "tooManyArguments"
            /\ n = P - 1 => last.err.kind \notin ArityErrors

\* C8 witness: a variadic handler was given exactly its fixed prefix (no
\* variadic argument at all) and Task succeeded.
C8_Witness ==
  /\ last.op = "Task"
  /\ fns[last.f].fv.variadic
  /\ Len(last.args) = ClaimP(fns[last.f].fv) - 2
  /\ last.err = NoErr
  /\ ~last.task.isnil


\* Argument i of the latest Task is an untyped nil.
LastNilAt(i) == last.args[i] = NIL

\* Argument i of the latest Task is a typed reference that is nil inside.
LastTypedNilAt(i) == last.args[i].t # "" /\ last.args[i].isnil

\* C9: the nilability rule of Task, once registration and arity checks
\* have passed.  A Task that succeeds has a nil only where the declared
\* type of the position (the parameter in the fixed prefix, the variadic
\* element beyond it) is of a nilable kind; a nil where the declared type
\* is a value kind makes Task fail with a type error; Task reports "not
\* nilable" only at a position holding a nil whose declared type is not
\* nilable; and in the payload of a successful Task every argument that was
\* nil inside (a nil pointer boxed in an interface) is the plain nil.
C9_NilabilityRule ==
  LastOnUsable /\ last.err.kind \notin ArityErrors =>
    LET ft == fns[last.f].fv
        n == Len(last.args)
        sent == GobDecode(last.task.Payload, gobTypes).inv.Args
    IN /\ \A i \in 1..n :
            LastNilAt(i) /\ ~ClaimNilableKind(Kind(ClaimDeclared(ft, i))) =>
              last.err.kind \in TypeErrors /\ last.task = NoTask
       /\ last.err.kind = "notNilable" =>
            /\ last.err.pos \in 1..n
            /\ LastNilAt(last.err.pos)
            /\ ~ClaimNilableKind(Kind(ClaimDeclared(ft, last.err.pos)))
       /\ last.err = NoErr =>
            /\ Len(sent) = n
            /\ \A i \in 1..n : LastNilAt(i) => ClaimNilableKind(Kind(ClaimDeclared(ft, i)))
            /\ \A i \in 1..n : LastNilAt(i) \/ LastTypedNilAt(i) => sent[i] = NIL

\* C9 witness: a Task succeeded whose variadic tail held an untyped nil
\* and a nil pointer boxed in an interface.
C9_Witness ==
  /\ last.op = "Task"
  /\ last.err = NoErr
  /\ fns[last.f].fv.variadic
  /\ \E i, j \in ClaimP(fns[last.f].fv) - 1 .. Len(last.args) :
       LastNilAt(i) /\ LastTypedNilAt(j)

\* The argument handleTask must pass for argument i of the latest Task:
\* the argument itself, or the zero value of the declared type of the
\* position when it was nil or nil inside.
Expected(ft, i) ==
  IF LastNilAt(i) \/ LastTypedNilAt(i) THEN Zero(ClaimDeclared(ft, i)) ELSE last.args[i]

\* C10: round trip through dispatch.  When handleTask runs on the payload
\* the latest successful Task built on a Function that holds its key in
\* the registry, it calls that Function's handler exactly once, with the
\* execution context first and then the same arguments in the same order,
\* each nil (or nil-normalized) one replaced by the zero value of the
\* declared type of its position; it does not panic, and for every position
\* the decode side takes the same declared type as the encode side.
C10_RoundTrip ==
  /\ disp.ran
  /\ ~last.task.isnil
  /\ disp.payload = last.task.Payload
  /\ Lookup(funcs, fns[last.f].key) = last.f
  => LET ft == fns[last.f].fv
         n == Len(last.args)
     IN /\ ~disp.panicked
        /\ Len(disp.calls) = 1
        /\ disp.calls[1].f = last.f
        /\ Len(disp.calls[1].in) = n + 1
        /\ disp.calls[1].in[1] = CtxValue
        /\ \A i \in 1..n : disp.calls[1].in[i + 1] = Expected(ft, i)
        /\ \A i \in 1..n : ZeroType(ft, i) = DeclaredType(ft, i)

\* C10 witness: a variadic handler was called with a value in its fixed
\* prefix, and in its tail a zero value standing for a nil and a value
\* that travelled in the payload.
C10_Witness ==
  /\ disp.ran
  /\ ~last.task.isnil
  /\ disp.payload = last.task.Payload
  /\ Len(disp.calls) = 1
  /\ fns[last.f].fv.variadic
  /\ Len(last.args) = 3
  /\ ~LastNilAt(1)
  /\ \E i, j \in 2..3 : LastNilAt(i) /\ ~LastNilAt(j) /\ ~LastTypedNilAt(j)


\* A handler of the shape Func accepts: a function whose first parameter
\* is the execution context.
ClaimValidShape(h) == h.kind = "Func" /\ Len(h.in) > 0 /\ h.in[1] = "ctx"

ErrMultiple == Err("multipleFunctions", 0)

\* The Functions registered under derived key k, in registration order.
RegisteredUnder(k) == {i \in 1..Len(fns) : fns[i].key = k /\ ClaimValidShape(fns[i].fv)}

Latest(S) == CHOOSE i \in S : \A j \in S : j <= i

\* After any sequence of registrations: of the handlers registered under
\* one derived key the latest is the one in the registry and carries no
\* error, and every earlier one carries the "multiple functions" error.
DuplicatesMarked ==
  \A k \in {fns[i].key : i \in 1..Len(fns)} :
    RegisteredUnder(k) # {} =>
      /\ Lookup(funcs, k) = Latest(RegisteredUnder(k))
      /\ fns[Latest(RegisteredUnder(k))].err = NoErr
      /\ \A i \in RegisteredUnder(k) \ {Latest(RegisteredUnder(k))} : fns[i].err = ErrMultiple

\* A step that runs Task or Call: on a shadowed Function it returns the
\* "multiple functions" error and builds and sends nothing; on the Function
\* in the registry it returns no registration error.
DuplicateUse ==
  last' # last =>
    /\ fns[last'.f].err = ErrMultiple =>
         last'.err = ErrMultiple /\ last'.task = NoTask /\ last'.rpcs = <<>>
    /\ Lookup(funcs, fns[last'.f].key) = last'.f => last'.err \notin RegistrationErrors

\* Once marked, a Function stays marked.
DuplicateStays ==
  \A i \in 1..Len(fns) :
    fns[i].err = ErrMultiple => i <= Len(fns') /\ fns'[i].err = ErrMultiple

\* C5: duplicate registration.  After any sequence of Func calls, of two
\* handlers registered under colliding derived keys the later one is
\* stored in the registry and usable, the earlier one is marked errored,
\* and every later Task or Call on the earlier one returns the "multiple
\* functions registered" error, for good.
C5_DuplicateRegistration ==
  /\ []DuplicatesMarked
  /\ [][DuplicateUse /\ DuplicateStays]_vars

\* C5 witness: two handlers were registered under one key, a Task on the
\* later one succeeded after the earlier one was marked.
C5_Witness ==
  /\ Len(fns) = 2
  /\ fns[1].key = fns[2].key
  /\ fns[1].err = ErrMultiple
  /\ Lookup(funcs, fns[2].key) = 2
  /\ last.op = "Task"
  /\ last.f = 2
  /\ last.err = NoErr
  /\ ~last.task.isnil

\* C6, as claimed: Func never fails at registration time, and a Function
\* whose handler is not callable or does not take the execution context
\* first returns its stored registration error from Task, before any arity
\* or type check and without a payload.
C6_RegistrationErrorsDeferred ==
  /\ crashed # "Func"
  /\ last.op \in {"Task", "Call"} /\ ~ClaimValidShape(fns[last.f].fv) =>
       /\ last.err = fns[last.f].err
       /\ last.err \in RegistrationErrors
       /\ last.task = NoTask


\* The Acks handed to stream.Send by unit u.
AcksOf(u) == {i \in 1..Len(acks) : acks[i].unit = u}

\* C1: streaming variant.  Every Ack handed to stream.Send comes from a
\* unit spawned for a received task, carries that task's code and has
\* success = true exactly when handleTask returned no error for it; a unit
\* hands over at most one Ack, none before handleTask has returned, and a
\* unit that has finished has handed over exactly one, whatever handleTask
\* returned.
C1_OneAckPerTask ==
  /\ \A i \in 1..Len(acks) :
       /\ acks[i].unit \in 1..Len(units)
       /\ acks[i].req.Code = units[acks[i].unit].Code
       /\ acks[i].req.Success = (units[acks[i].unit].err = NoErr)
  /\ \A u \in 1..Len(units) :
       Cardinality(AcksOf(u)) = IF units[u].pc \in {"sending", "done"} THEN 1 ELSE 0

\* C1 witness: two tasks with different codes have been acknowledged and
\* their units have finished, one with success = false after its handler
\* failed, one with success = true.
C1_Witness ==
  /\ Len(units) = 2
  /\ units[1].pc = "done" /\ units[2].pc = "done"
  /\ units[1].Code # units[2].Code
  /\ \E i, j \in 1..Len(acks) :
       /\ acks[i].req = [Code |-> units[1].Code, Success |-> FALSE]
       /\ units[1].err.kind = "handlerFailed"
       /\ acks[j].req = [Code |-> units[2].Code, Success |-> TRUE]

TransportErrors == {"cannotReceive", "cannotAck"}

\* A step in which handleTask returns an error to unit u.
HandlerFails(u) ==
  /\ u <= Len(units)
  /\ units[u].pc \in {"spawned", "handler"}
  /\ units'[u].pc = "ack"
  /\ units'[u].failed

\* C2: dispatch isolation in the streaming variant.  The shared context
\* is cancelled only by a transport error, never by a handler; the step in
\* which a handler reports failure leaves the context, the group's error,
\* the receive loop and every sibling unit as they were; and every Ack a
\* unit sends carries the success of that unit's own handleTask.
C2_DispatchIsolation ==
  /\ [](variant = "stream" /\ (cancelled \/ gerr # NoErr) => gerr.kind \in TransportErrors)
  /\ [](\A i \in 1..Len(acks) : acks[i].req.Success = ~units[acks[i].unit].failed)
  /\ [][\A u \in 1..MaxTasks : HandlerFails(u) =>
          /\ cancelled' = cancelled
          /\ gerr' = gerr
          /\ rpc' = rpc
          /\ \A v \in 1..Len(units) : v # u => units'[v] = units[v]]_vars

\* C2 witness: the handler of the first task failed and was acknowledged
\* as failed; the second task, received while the first was in flight, was
\* acknowledged as successful after that; the context is not cancelled and
\* the receive loop is still running.
C2_Witness ==
  /\ Len(units) = 2
  /\ units[1].err.kind = "handlerFailed"
  /\ units[1].pc = "done"
  /\ units[2].pc = "done"
  /\ Len(acks) = 2
  /\ acks[1] = [unit |-> 1, req |-> [Code |-> units[1].Code, Success |-> FALSE]]
  /\ acks[2] = [unit |-> 2, req |-> [Code |-> units[2].Code, Success |-> TRUE]]
  /\ ~cancelled
  /\ gerr = NoErr
  /\ rpc = "run"

\* A transport error has reached the group of the running streaming
\* attempt.
TransportFailed == variant = "stream" /\ hpc = "wait" /\ gerr.kind \in TransportErrors

\* listenQueue has returned a non-nil error to Handle.
ReturnedError == hpc = "sleep" /\ lqerr # NoErr

\* A handler of the current attempt never returns.
SomeHandlerBlocked == \E u \in 1..Len(units) : units[u].pc = "blocked"

\* C3 as stated: after any failure of stream.Recv or of the Ack Send,
\* listenQueue eventually returns with an error.
C3_Original == TransportFailed ~> ReturnedError

\* C3: a failure of stream.Recv or of a unit's Ack Send cancels the
\* shared context and the receive loop then terminates; when listenQueue
\* returns after such a failure its result is non-nil; and it does
\* return, unless a handler in flight never returns.
C3_TransportFailureEndsAttempt ==
  /\ [](TransportFailed => cancelled)
  /\ [][TransportFailed /\ hpc' # "wait" => hpc' = "sleep" /\ lqerr' # NoErr]_vars
  /\ (TransportFailed ~> (rpc = "ret" /\ (ReturnedError \/ SomeHandlerBlocked)))

\* C3 witness: the Ack Send of a unit failed while a sibling was still in
\* its handler; the sibling finished and listenQueue returned the error.
C3_Witness ==
  /\ gerr.kind = "cannotAck"
  /\ Len(units) = 2
  /\ \A u \in 1..2 : units[u].pc = "done"
  /\ hpc = "sleep"
  /\ lqerr.kind = "errorClosingGoroutines"

\* C4: Handle never stops.  Whatever listenQueue returns, Handle logs the
\* result when it is an error, sleeps the same fixed delay and calls
\* listenQueue again; a new attempt starts with a fresh group, context,
\* connection and counter; and Handle has no state other than calling,
\* waiting and sleeping, whatever the number of attempts made so far.
C4_ReconnectionPolicy ==
  /\ [](hpc \in {"call", "wait", "sleep"})
  /\ [](hpc = "sleep" => (logged <=> lqerr # NoErr) /\ delay = RetrySeconds)
  /\ [](hpc = "sleep" => ENABLED Handle)
  /\ [](hpc = "call" => ENABLED listenQueue("ok"))
  /\ [][hpc = "sleep" /\ hpc' # "sleep" => hpc' = "call"]_vars
  /\ [][hpc = "call" /\ hpc' # "call" =>
          /\ gerr' = NoErr
          /\ ~cancelled'
          /\ units' = <<>>
          /\ acks' = <<>>
          /\ frames' = <<>>
          /\ handled' = <<>>
          /\ counter' = 0]_vars

\* C4 witness: an attempt ended with an error, which was logged, and
\* Handle has slept and started the last attempt the model counts, with
\* nothing left of the previous one.
C4_Witness ==
  /\ attempt = MaxAttempts
  /\ hpc = "wait"
  /\ lqerr # NoErr
  /\ logged
  /\ units = <<>>
  /\ rpc = "run"

\* The task of a payload cannot be dispatched: the payload does not
\* decode, or it decodes to a key the table has no Function for.
Undispatchable(payload) ==
  \/ GobDecode(payload, gobTypes).err # NoErr
  \/ GobDecode(payload, gobTypes).inv.Key \notin DOMAIN funcs

DispatchErrors == {"cannotDecode", "noFuncWithKey"}

\* A step in which handleTask returns for unit u without calling a handler.
Dropped(u) ==
  /\ u <= Len(units)
  /\ units[u].pc = "spawned"
  /\ units'[u].pc # "spawned"
  /\ Undispatchable(units[u].Payload)

\* C11: a task whose payload does not decode and a task whose key has no
\* Function are treated alike.  No handler is ever called for it;
\* handleTask returns an error and the task is marked failed (and logged);
\* handleTask runs once for it, never again; in the streaming variant its
\* Ack carries success = false, and the step that drops it leaves the
\* shared context, the group's error, the receive loop and the other units
\* as they were; in the fire-and-forget variant the loop goes on decoding.
C11_DecodeAndLookupErrors ==
  /\ [](\A u \in 1..Len(units) : Undispatchable(units[u].Payload) =>
          /\ units[u].pc \in {"spawned", "ack", "sending", "done"}
          /\ units[u].pc # "spawned" => units[u].failed /\ units[u].err.kind \in DispatchErrors
          /\ \A i \in AcksOf(u) : ~acks[i].req.Success)
  /\ [](\A i \in 1..Len(handled) : Undispatchable(handled[i].Payload) =>
          handled[i].pc = "done" /\ handled[i].failed)
  /\ [][\A u \in 1..MaxTasks : Dropped(u) =>
          /\ units'[u].pc = "ack"
          /\ cancelled' = cancelled /\ gerr' = gerr /\ rpc' = rpc
          /\ \A v \in 1..Len(units) : v # u => units'[v] = units[v]]_vars
  /\ [][\A u \in 1..Len(units) :
          units[u].pc # "spawned" /\ u <= Len(units') => units'[u].pc # "spawned"]_vars
  /\ [][Len(handled') > Len(handled) /\ Undispatchable(handled'[Len(handled')].Payload) =>
          rpc' = "decode" /\ gerr' = gerr /\ cancelled' = cancelled]_vars

\* C11 witness: a payload that does not decode and a payload with an
\* unknown key were both received on the stream, both were acknowledged
\* with success = false, and the receive loop is still running.
C11_Witness ==
  /\ Len(units) = 2
  /\ units[1].err.kind = "cannotDecode"
  /\ units[2].err.kind = "noFuncWithKey"
  /\ units[1].pc = "done" /\ units[2].pc = "done"
  /\ \A i \in 1..Len(acks) : ~acks[i].req.Success
  /\ Len(acks) = 2
  /\ rpc = "run"
  /\ ~cancelled

\* The handler type handleTask called, and the values it returned.
CalledType == fns[disp.f].fv

\* The declared results end with the error type.
EndsWithError(ft) == Len(ft.out) > 0 /\ ft.out[Len(ft.out)] = "error"

\* C12: when handleTask has called a handler, it returns an error exactly
\* when the handler's declared results end with the error type and the
\* value returned in that last position is not nil; the error is the
\* handler failure; a handler with no results, or whose last result is not
\* of the error type, never fails, whatever it returns elsewhere.
C12_DispatchResultRule ==
  disp.ran /\ disp.calls # <<>> =>
    /\ disp.err # NoErr <=> (EndsWithError(CalledType) /\ disp.out[Len(disp.out)] # NIL)
    /\ disp.err # NoErr => disp.err.kind = "handlerFailed"
    /\ ~EndsWithError(CalledType) => disp.err = NoErr

\* C12 witness: a handler declared to return (error, int) returned a
\* non-nil error in its first position and handleTask reported success.
C12_Witness ==
  /\ disp.ran
  /\ disp.calls # <<>>
  /\ CalledType.out = <<"error", "int">>
  /\ disp.out[1] # NIL
  /\ disp.err = NoErr

\* The handlers of the fire-and-forget variant that have been called and
\* have not returned.
RunningHandlers == {i \in 1..Len(handled) : handled[i].pc = "handler"}

\* C13: fire-and-forget variant.  Tasks are dispatched one at a time in
\* receipt order: at most one handler has not returned, and it is the one
\* of the latest task; a task is dispatched only when the handler of the
\* previous one has returned, and it is the first frame still to be taken
\* of the current message; the next message is taken only when the frames
\* of the current one are used up; no Ack is ever sent; and a handler
\* that returns, failing or not, leaves the remaining frames, the group
\* and the context as they were and puts the loop back to decoding, where
\* the next frame can be dispatched.
C13_PubsubSerial ==
  /\ [](variant = "pubsub" => acks = <<>> /\ units = <<>>)
  /\ [](Cardinality(RunningHandlers) <= 1)
  /\ [](\A i \in 1..Len(handled) : i < Len(handled) => handled[i].pc = "done")
  /\ [](RunningHandlers # {} => rpc \in {"handler", "blocked"})
  /\ [][Len(handled') > Len(handled) =>
          /\ RunningHandlers = {}
          /\ frames # <<>>
          /\ handled'[Len(handled')].Payload = Head(frames).Payload
          /\ frames' = Tail(frames)
          /\ SubSeq(handled', 1, Len(handled)) = handled]_vars
  /\ [][variant = "pubsub" /\ hpc = "wait" /\ frames' # frames /\ Len(handled') = Len(handled) =>
          frames = <<>> /\ RunningHandlers = {}]_vars
  /\ [][rpc = "handler" /\ rpc' # "handler" =>
          \/ rpc' = "blocked" /\ handled' = handled
          \/ /\ rpc' = "decode"
             /\ handled'[Len(handled)].pc = "done"
             /\ frames' = frames /\ gerr' = gerr /\ cancelled' = cancelled]_vars
  /\ [](variant = "pubsub" /\ hpc = "wait" /\ rpc = "decode" /\ crashed = ""
          /\ frames # <<>> /\ ~Head(frames).bad => ENABLED PubsubTask)

\* C13 witness: a message batched two tasks; the handler of the first
\* failed, after which the second was dispatched and its handler returned
\* without error; the loop decodes on.
C13_Witness ==
  /\ variant = "pubsub"
  /\ Len(handled) = 2
  /\ handled[1].rest = 1
  /\ handled[1].pc = "done" /\ handled[1].failed /\ ~Undispatchable(handled[1].Payload)
  /\ handled[2].pc = "done" /\ ~handled[2].failed
  /\ rpc = "decode"
  /\ gerr = NoErr

\* C14: fire-and-forget variant.  The n-th task decoded since the
\* subscription loop started carries the code "sim-n", counting across
\* messages and across the frames of one message; codes increase by one
\* from task to task and no two tasks of the loop share a code.
C14_SimCodes ==
  /\ \A n \in 1..Len(handled) : handled[n].Code = "sim-" \o ToString(n)
  /\ \A i, j \in 1..Len(handled) : i # j => handled[i].Code # handled[j].Code
  /\ counter = Len(handled)

\* C14 witness: the second task of the loop came in a later message than
\* the first and carries "sim-2".
C14_Witness ==
  /\ variant = "pubsub"
  /\ Len(handled) = 2
  /\ handled[1].rest = 0
  /\ handled[1].Code = "sim-1"
  /\ handled[2].Code = "sim-2"

\* The units that are inside stream.Send on the stream of the attempt.
InsideSend == {u \in 1..Len(units) : units[u].pc = "sending"}

\* C15, as claimed: the units of the streaming variant share no mutable
\* resource, so no two of them are ever inside a Send on the same stream
\* at the same time.
C15_NoSharedMutableState == Cardinality(InsideSend) <= 1

\* C16: after any sequence of Func calls, every Function the table holds
\* is held under its own key, has no registration error and is a function
\* whose first parameter is the execution context; a Function without
\* error is the one the table holds for its key, so each key has at most
\* one; and a registration of invalid shape leaves the table and every
\* Function created before it as they were.
C16_RegistryInvariant ==
  /\ [](\A k \in DOMAIN funcs :
          /\ funcs[k] \in 1..Len(fns)
          /\ fns[funcs[k]].key = k
          /\ fns[funcs[k]].err = NoErr
          /\ ClaimValidShape(fns[funcs[k]].fv))
  /\ [](\A i \in 1..Len(fns) :
          fns[i].err = NoErr => fns[i].key \in DOMAIN funcs /\ funcs[fns[i].key] = i)
  /\ [](\A i, j \in 1..Len(fns) :
          fns[i].key = fns[j].key /\ fns[i].err = NoErr /\ fns[j].err = NoErr => i = j)
  /\ [][Len(fns') > Len(fns) /\ ~ClaimValidShape(fns'[Len(fns')].fv) =>
          /\ funcs' = funcs
          /\ SubSeq(fns', 1, Len(fns)) = fns
          /\ fns'[Len(fns')].err # NoErr]_vars

\* C16 witness: a valid handler was registered under a key and a handler
\* of invalid shape was registered under the same key after it; the table
\* still holds the first, which has no error.
C16_Witness ==
  /\ Len(fns) = 2
  /\ fns[1].key = fns[2].key
  /\ ~ClaimValidShape(fns[2].fv)
  /\ fns[2].err # NoErr
  /\ fns[1].err = NoErr
  /\ funcs[fns[1].key] = 1

\* The Function that holds, in the table, the key of the Function the
\* latest Task was called on.
Holder == funcs[fns[last.f].key]

\* C17: handleTask resolves the handler by the key in the payload when it
\* runs.  On the payload the latest successful Task built on a Function F
\* it takes the Function that holds F's key in the table at that moment,
\* which is a later registration G when F has been shadowed; it checks
\* neither the arity nor the types of F's arguments against G and never
\* returns an arity or type error: when it calls, it calls G's handler
\* with the context and F's arguments in order, each nil one replaced by
\* the zero value of the type G declares at its position.
C17_DispatchByKey ==
  /\ disp.ran
  /\ ~last.task.isnil
  /\ disp.payload = last.task.Payload
  => /\ disp.f = Holder
     /\ disp.err.kind \in {"nil", "handlerFailed"}
     /\ ~disp.panicked =>
          /\ Len(disp.calls) = 1
          /\ disp.calls[1].f = Holder
          /\ Len(disp.calls[1].in) = Len(last.args) + 1
          /\ disp.calls[1].in[1] = CtxValue
          /\ \A i \in 1..Len(last.args) :
               disp.calls[1].in[i + 1] = Expected(fns[Holder].fv, i)
     /\ disp.panicked => disp.calls = <<>> /\ crashed = "handleTask"

\* C17 witness: a payload with a nil first argument was built on F; a
\* handler G of another type was registered under F's key afterwards; the
\* payload was dispatched to G, which was called with F's arguments and
\* the zero value of its own first parameter type, an int, for the nil.
C17_Witness ==
  /\ disp.ran
  /\ ~last.task.isnil
  /\ disp.payload = last.task.Payload
  /\ last.f = 1
  /\ Holder = 2
  /\ fns[1].fv # fns[2].fv
  /\ fns[1].err = ErrMultiple
  /\ Len(disp.calls) = 1
  /\ disp.calls[1].f = 2
  /\ LastNilAt(1)
  /\ disp.calls[1].in[2] = Zero("int")

\* A handler of the running attempt never returns, in either variant.
Stuck == SomeHandlerBlocked \/ rpc = "blocked"

\* C18: listenQueue, once its goroutines run, returns only when the
\* receive loop and every unit it spawned have returned; so whenever
\* Handle sleeps or starts the next attempt after an error of the group,
\* no unit of the failed attempt is still running; and from the moment a
\* handler never returns, listenQueue never returns and Handle never
\* starts another attempt.
C18_WaitsForAllUnits ==
  /\ [][hpc = "wait" /\ hpc' # "wait" =>
          /\ hpc' = "sleep"
          /\ rpc = "ret"
          /\ \A u \in 1..Len(units) : units[u].pc = "done"]_vars
  /\ [](hpc \in {"sleep", "call"} => \A u \in 1..Len(units) : units[u].pc = "done")
  /\ [](Stuck => hpc = "wait")
  /\ [][Stuck => Stuck' /\ hpc' = "wait" /\ attempt' = attempt]_vars

\* C18 witness: stream.Recv has failed and the receive loop has returned;
\* one unit has finished and the handler of the other never returns:
\* listenQueue is still waiting.
C18_Witness ==
  /\ gerr.kind = "cannotReceive"
  /\ rpc = "ret"
  /\ Len(units) = 2
  /\ units[1].pc = "blocked"
  /\ units[2].pc = "done"
  /\ hpc = "wait"

\* C19: the counter belongs to one run of the subscription loop.  Every
\* call of listenQueue starts it at zero, so the first task of every run,
\* the first after a reconnection included, carries "sim-1", whatever
\* codes earlier runs gave out: codes repeat over the life of the listener.
C19_CounterPerAttempt ==
  /\ [][hpc = "call" /\ hpc' # "call" => counter' = 0]_vars
  /\ [](variant = "pubsub" /\ handled # <<>> => handled[1].Code = "sim-1")
  /\ [](variant = "pubsub" /\ hpc = "wait" /\ handled = <<>> => counter = 0)

\* C19 witness: after a reconnection the first task of the new run carries
\* "sim-1", a code an earlier run had already given to another task.
C19_Witness ==
  /\ variant = "pubsub"
  /\ attempt > 1
  /\ hpc = "wait"
  /\ handled # <<>>
  /\ handled[1].Code = "sim-1"
  /\ "sim-1" \in earlier

====
